---- MODULE Spec2Model ----
(***************************************************************************)
(* Model of dsl16/mood-lighting.                                           *)
(*                                                                         *)
(*   src/src/lighting/lifx_api.py  LIFXController   (program = "api")      *)
(*   src/src/main.py               LightController  (program = "button")   *)
(*                                                                         *)
(* Spec runs one of the two programs, SpecToken the construction of a      *)
(* LIFXController alone, SpecCalls the methods of a LightController called *)
(* one by one, SpecRun the button controller with run() making progress,   *)
(* SpecParties the toggles of both clients with another party writing,     *)
(* SpecPair two LIFXControllers toggling step by step, SpecBoot the calls  *)
(* from several readings of the clock, SpecRequest _make_request alone.    *)
(*                                                                         *)
(* The LIFX cloud service, the WiFi link and the millisecond clock are the *)
(* environment: the service is a list of lights (those the selector        *)
(* matches, in the order the service lists them), each with a power value. *)
(* Python exceptions are modelled by the name of their type, "none" when   *)
(* the call returned normally.                                             *)
(***************************************************************************)
EXTENDS Integers, Sequences, FiniteSets, TLC

(***************************************************************************)
(* Bounds of the model.                                                    *)
(***************************************************************************)
MaxLights == 2      \* lights one selector resolves to

(***************************************************************************)
(* The cloud service and its answers.                                      *)
(***************************************************************************)
\* the power of a light of the service
Power == {"on", "off"}

\* the 'status' of one entry of a PUT response's 'results'
ResultStatus == {"ok", "offline"}

\* one HTTP request as the client issues it
Request(method, endpoint, power) ==
    [method |-> method, endpoint |-> endpoint, power |-> power]

LightLists == UNION {[1..n -> Power] : n \in 0..MaxLights}

\* requests.get / requests.put raised (timeout, no connection): there is no
\* response object and the service did nothing
NoAnswer == [transport |-> "timeout", status |-> 0, kind |-> "none"]

\* The answers to a GET: none, an error status, or 200 with a body.  kind is
\* the body: "json" the list of the lights, "badjson" not parsable, "nopower"
\* a list whose light objects carry no 'power' field, "oddpower" a list whose
\* first light reports a power that is neither 'on' nor 'off'.
GetResponses ==
    {NoAnswer, [transport |-> "ok", status |-> 404, kind |-> "error"]}
    \cup [transport : {"ok"}, status : {200},
          kind : {"json", "badjson", "nopower", "oddpower"}]

\* the list of lights a parsable GET body holds when the service has ls
Reported(ls, kind) ==
    IF kind = "oddpower" /\ Len(ls) > 0 THEN [ls EXCEPT ![1] = "unknown"] ELSE ls

\* The answers to a PUT that addressed n lights: none, an error status, or
\* 207 (multi-status) with a body.  kind is the body: "json" a dict with the
\* 'results' list, "noresults" a dict without it, "badjson" not parsable (the
\* service did nothing); results[i] is what the service did with light i.
PutTimeout(n) ==
    [transport |-> "timeout", status |-> 0, kind |-> "none",
     results |-> [i \in 1..n |-> "offline"]]

PutResponses(n) ==
    {PutTimeout(n),
     [transport |-> "ok", status |-> 404, kind |-> "error",
      results |-> [i \in 1..n |-> "offline"]],
     [transport |-> "ok", status |-> 207, kind |-> "badjson",
      results |-> [i \in 1..n |-> "offline"]]}
    \cup [transport : {"ok"}, status : {207}, kind : {"json", "noresults"},
          results : [1..n -> ResultStatus]]

\* the lights after a PUT of `power`: each light whose result is 'ok' takes it
ServicePut(ls, power, resp) ==
    IF power \in Power
    THEN [i \in 1..Len(ls) |-> IF resp.results[i] = "ok" THEN power ELSE ls[i]]
    ELSE ls

(***************************************************************************)
(* src/src/lighting/lifx_api.py : LIFXController                           *)
(***************************************************************************)
VARIABLES
    lights,        \* the service: power of each light the selector matches
    LIFX_TOKEN,    \* secrets.LIFX_TOKEN, the configured token
    controller,    \* the LIFXController last constructed (or the failure)
    call,          \* the last call made on the controller, and its outcome
    last_toggle,   \* the successful toggles in a row, nobody writing between
    between,       \* (program "parties") the first light since the last toggle
    inflight       \* (program "pair") the toggles of two controllers, step by step

apiVars == <<LIFX_TOKEN, controller, call, last_toggle, between, inflight>>

VARIABLE program   \* which program runs: "api" (lifx_api.py), "button"
                   \* (main.py), "calls" (the methods of a LightController),
                   \* "parties" (both clients and somebody else), "pair"
                   \* (two LIFXControllers on the same lights)

TOKEN_LENGTH == 64
MaxTokenLen == 66   \* longest token tried

\* a token is known by where it comes from and by its length
NoToken == [origin |-> "none", len |-> 0]
ArgTokens == [origin : {"arg"}, len : 0..MaxTokenLen]
SecretTokens == [origin : {"secrets"}, len : {0, 40, TOKEN_LENGTH}]

\* Python truth value of a token: None and the empty string are false
Truthy(tok) == tok.origin # "none" /\ tok.len > 0

\* LIFXController.__init__(api_token): the token kept and the exception raised
LIFXController_init(api_token, secret) ==
    LET tok == IF Truthy(api_token) THEN api_token ELSE secret
    IN  IF ~Truthy(tok) \/ tok.len # TOKEN_LENGTH
        THEN [exc |-> "LIFXAPIError", api_token |-> tok]
        ELSE [exc |-> "none", api_token |-> tok]

\* LIFXController._make_request: the exception raised, how often the
\* response was closed, the requests issued and the parsed body returned
LIFX_make_request(method, endpoint, power, resp) ==
    IF method \notin {"GET", "PUT"}
    THEN \* LIFXAPIError raised inside try; the handler then reads the
         \* local 'response', which was never bound
         [exc |-> "UnboundLocalError", closes |-> 0, reqs |-> <<>>, body |-> resp]
    ELSE LET sent == <<Request(method, endpoint, power)>>
         IN  IF resp.transport # "ok"
             THEN [exc |-> "UnboundLocalError", closes |-> 0, reqs |-> sent,
                   body |-> resp]
             ELSE IF resp.status \notin {200, 207}
             THEN [exc |-> "LIFXAPIError", closes |-> 1, reqs |-> sent,
                   body |-> resp]
             ELSE IF resp.kind = "badjson"
             THEN [exc |-> "LIFXAPIError", closes |-> 1, reqs |-> sent,
                   body |-> resp]
             ELSE [exc |-> "none", closes |-> 1, reqs |-> sent, body |-> resp]

\* except clauses that let every exception pass, to compare with
Wrap_pass(exc) == exc

\* the except clauses of the public methods: LIFXAPIError passes, every
\* other Exception is raised again as LIFXAPIError
Wrap(exc) == IF exc = "none" THEN "none" ELSE "LIFXAPIError"

\* get_light_state without its check of the list, to compare with
LIFX_get_light_state_unchecked(resp) ==
    LET r == LIFX_make_request("GET", "lights/{selector}", "none", resp)
    IN  IF r.exc # "none"
        THEN [exc |-> Wrap(r.exc), closes |-> r.closes, reqs |-> r.reqs,
              value |-> <<>>, kind |-> resp.kind]
        ELSE [exc |-> "none", closes |-> r.closes, reqs |-> r.reqs,
              value |-> r.body.lights, kind |-> resp.kind]

\* LIFXController.get_light_state: value is the list of lights returned
LIFX_get_light_state(resp) ==
    LET r == LIFX_make_request("GET", "lights/{selector}", "none", resp)
    IN  IF r.exc # "none"
        THEN [exc |-> Wrap(r.exc), closes |-> r.closes, reqs |-> r.reqs,
              value |-> <<>>, kind |-> resp.kind]
        ELSE IF Len(r.body.lights) = 0
        THEN [exc |-> "LIFXAPIError", closes |-> r.closes, reqs |-> r.reqs,
              value |-> <<>>, kind |-> resp.kind]
        ELSE [exc |-> "none", closes |-> r.closes, reqs |-> r.reqs,
              value |-> r.body.lights, kind |-> resp.kind]

\* a count of all the results, to compare with
success_count_all(results) == Len(results)

\* sum(1 for r in result['results'] if r.get('status') == 'ok')
success_count(results) == Cardinality({i \in 1..Len(results) : results[i] = "ok"})

\* LIFXController.set_light_state(power, brightness, color); "None" is None
LIFX_set_light_state(power, brightness, color, resp) ==
    IF power = "None" /\ brightness = "None" /\ color = "None"
    THEN [exc |-> "LIFXAPIError", closes |-> 0, reqs |-> <<>>]
    ELSE LET r == LIFX_make_request("PUT", "lights/{selector}/state", power, resp)
         IN  IF r.exc # "none"
             THEN [exc |-> Wrap(r.exc), closes |-> r.closes, reqs |-> r.reqs]
             ELSE IF r.body.kind = "json" /\ success_count(r.body.results) = 0
             THEN [exc |-> "LIFXAPIError", closes |-> r.closes, reqs |-> r.reqs]
             ELSE [exc |-> "none", closes |-> r.closes, reqs |-> r.reqs]

\* two other choices of the power to write, to compare with
Opposite_same(current_power) == current_power

Opposite_on(current_power) == "on"

\* a toggle that remembers: it writes the power its predecessor did not
\* write, and looks at the query only when it has no predecessor, to compare
\* with
Opposite_remembered(current_power) ==
    IF between.toggled \in {"on", "off"}
    THEN (IF between.toggled = "on" THEN "off" ELSE "on")
    ELSE (IF current_power = "on" THEN "off" ELSE "on")

\* step 2 of the toggle: 'off' if current_power == 'on' else 'on'
Opposite(current_power) == IF current_power = "on" THEN "off" ELSE "on"

\* LIFXController.toggle_light: get_resp and put_resp are the service's
\* answers to the two requests
LIFX_toggle_light(get_resp, put_resp) ==
    LET g == LIFX_get_light_state(get_resp)
        failed(exc, reqs, closes) ==
            [exc |-> exc, reqs |-> reqs, closes |-> closes,
             old_power |-> "none", new_power |-> "none", success |-> FALSE]
    IN  IF g.exc # "none" THEN failed(g.exc, g.reqs, g.closes)
        ELSE IF Len(g.value) = 0
        THEN failed(Wrap("IndexError"), g.reqs, g.closes)
        ELSE IF g.kind = "nopower"
        THEN failed(Wrap("KeyError"), g.reqs, g.closes)
        ELSE LET current_power == g.value[1]
                 new_power == Opposite(current_power)
                 s == LIFX_set_light_state(new_power, "None", "None", put_resp)
             IN  IF s.exc # "none"
                 THEN failed(s.exc, g.reqs \o s.reqs, g.closes + s.closes)
                 ELSE [exc |-> "none", reqs |-> g.reqs \o s.reqs,
                       closes |-> g.closes + s.closes,
                       old_power |-> current_power, new_power |-> new_power,
                       success |-> TRUE]

\* LIFXController.discover_lights: the query of 'all', then one info per
\* light, built from fields of the light object; a light object without
\* one of them raises KeyError, which the method converts
LIFX_discover_lights(resp) ==
    LET g == LIFX_get_light_state(resp)
    IN  IF g.exc # "none"
        THEN [exc |-> g.exc, closes |-> g.closes, reqs |-> g.reqs,
              value |-> <<>>]
        ELSE IF g.kind = "nopower"
        THEN [exc |-> Wrap("KeyError"), closes |-> g.closes, reqs |-> g.reqs,
              value |-> <<>>]
        ELSE [exc |-> "none", closes |-> g.closes, reqs |-> g.reqs,
              value |-> [i \in 1..Len(g.value) |-> g.value[i]]]

\* LIFXController.validate_connection: len(lights) > 0 of the discovery
LIFX_validate_connection(resp) ==
    LET d == LIFX_discover_lights(resp)
    IN  IF d.exc # "none"
        THEN [exc |-> Wrap(d.exc), closes |-> d.closes, reqs |-> d.reqs,
              value |-> <<>>]
        ELSE [exc |-> "none", closes |-> d.closes, reqs |-> d.reqs,
              value |-> IF Len(d.value) > 0 THEN <<"True">> ELSE <<"False">>]

(***************************************************************************)
(* Calls on a LIFXController, one action per public method.  Each action   *)
(* draws the service's answers, runs the method, applies what the service  *)
(* did to its lights and records the call.                                 *)
(***************************************************************************)
\* the answer to a GET with the list of lights its body holds
GetAnswer(resp, ls) ==
    [transport |-> resp.transport, status |-> resp.status, kind |-> resp.kind,
     lights |-> Reported(ls, resp.kind)]

NoPut == [transport |-> "none", status |-> 0, kind |-> "none", results |-> <<>>]

\* no toggle yet, or the last one failed, or somebody wrote since.  n counts
\* the toggles of the run (the one after the second starts a new run),
\* old_power is what the first returned as old_power, before the power the
\* first light had before it, new_power what the last returned as new_power,
\* regular says that every toggle of the run queried 'on' or 'off' and had
\* its write reported 'ok' for the first light.
NoRun == [n |-> 0, old_power |-> "none", before |-> "none",
          new_power |-> "none", regular |-> FALSE]

\* toggled is the power the last toggle sent in its PUT ("none": no toggle
\* yet, the last one sent no PUT, or set_light_state was called since),
\* external the power somebody else gave the first light since then, found
\* the external that the last toggle found when it started, a toggle that
\* sent a PUT having gone before ("none": there was none)
NoBetween == [toggled |-> "none", external |-> "none", found |-> "none"]

\* between, after a toggle that issued reqs
AfterToggle(reqs) ==
    IF program # "parties" THEN between
    ELSE [toggled |-> IF \E i \in 1..Len(reqs) : reqs[i].method = "PUT"
                      THEN reqs[Len(reqs)].power ELSE "none",
          external |-> "none",
          found |-> IF between.toggled = "none" THEN "none"
                    ELSE between.external]

\* no pair of controllers
NoPair == [original |-> <<>>, ctl |-> <<>>]

NoCall == [op |-> "none", exc |-> "none", reqs |-> <<>>, closes |-> 0,
           arg |-> NoToken, value |-> <<>>,
           old_power |-> "none", new_power |-> "none", success |-> FALSE,
           get |-> NoAnswer, put |-> NoPut]

\* the PUT answer reported 'ok' for the first light of the selector
FirstOk(resp) ==
    /\ resp.kind = "json"
    /\ Len(resp.results) > 0
    /\ resp.results[1] = "ok"

\* the answers to the PUT of a toggle: none is drawn when the toggle stops
\* before its PUT
PutAnswers(get_resp, ls) ==
    LET r == LIFX_toggle_light(GetAnswer(get_resp, ls), PutTimeout(Len(ls)))
    IN  IF \E i \in 1..Len(r.reqs) : r.reqs[i].method = "PUT"
        THEN PutResponses(Len(ls))
        ELSE {PutTimeout(Len(ls))}

\* the answers to the PUT of set_light_state: none is drawn when it raises
\* before its PUT
SetAnswers(power, brightness, ls) ==
    LET r == LIFX_set_light_state(power, brightness, "None", PutTimeout(Len(ls)))
    IN  IF Len(r.reqs) > 0 THEN PutResponses(Len(ls)) ELSE {PutTimeout(Len(ls))}

\* controller = LIFXController(api_token)
ApiConstruct(api_token) ==
    /\ controller' = LIFXController_init(api_token, LIFX_TOKEN)
    /\ call' = [NoCall EXCEPT !.op = "init", !.arg = api_token,
                              !.exc = controller'.exc]
    /\ UNCHANGED <<lights, LIFX_TOKEN, inflight, last_toggle, between>>

\* the HTTP methods _make_request is called with: the two it knows and one
\* it does not
Methods == {"GET", "PUT", "DELETE"}

\* the answers to one request of _make_request: none is drawn for a method
\* it sends nothing for
RequestAnswers(method, ls) ==
    IF method = "GET" THEN GetResponses
    ELSE IF method = "PUT" THEN PutResponses(Len(ls))
    ELSE {NoAnswer}

\* controller._make_request(method, endpoint, data), called as the public
\* methods call it: a GET of the selector, a PUT of a power to its state
ApiRequest(method, power, resp) ==
    /\ controller.exc = "none"
    /\ LET endpoint == IF method = "GET" THEN "lights/{selector}"
                       ELSE "lights/{selector}/state"
           answer == IF method = "GET" THEN GetAnswer(resp, lights) ELSE resp
           r == LIFX_make_request(method, endpoint, power, answer)
       IN  call' = [NoCall EXCEPT
                       !.op = "request", !.exc = r.exc, !.reqs = r.reqs,
                       !.closes = r.closes,
                       !.get = IF method = "GET" THEN resp ELSE NoAnswer,
                       !.put = IF method = "PUT" THEN resp ELSE NoPut]
    /\ lights' = IF method = "PUT" THEN ServicePut(lights, power, resp)
                 ELSE lights
    /\ last_toggle' = NoRun
    /\ UNCHANGED <<LIFX_TOKEN, inflight, controller, between>>

\* controller.get_light_state(selector)
ApiGet(resp) ==
    /\ controller.exc = "none"
    /\ LET r == LIFX_get_light_state(GetAnswer(resp, lights))
       IN  call' = [NoCall EXCEPT !.op = "get", !.exc = r.exc, !.reqs = r.reqs,
                                  !.closes = r.closes, !.value = r.value,
                                  !.get = resp]
    /\ UNCHANGED <<lights, LIFX_TOKEN, inflight, controller, last_toggle, between>>

\* controller.validate_connection(); value is what it returned
ApiValidate(resp) ==
    /\ controller.exc = "none"
    /\ LET r == LIFX_validate_connection(GetAnswer(resp, lights))
       IN  call' = [NoCall EXCEPT !.op = "validate", !.exc = r.exc,
                                  !.reqs = r.reqs, !.closes = r.closes,
                                  !.value = r.value, !.get = resp]
    /\ UNCHANGED <<lights, LIFX_TOKEN, inflight, controller, last_toggle,
                   between>>

\* controller.set_light_state(selector, power, brightness, color); a write
\* that does not come from a toggle ends the run of undisturbed toggles
ApiSet(power, brightness, color, resp) ==
    /\ controller.exc = "none"
    /\ LET r == LIFX_set_light_state(power, brightness, color, resp)
           sent == Len(r.reqs) > 0
       IN  /\ call' = [NoCall EXCEPT !.op = "set", !.exc = r.exc,
                                     !.reqs = r.reqs, !.closes = r.closes,
                                     !.new_power = power,
                                     !.put = IF sent THEN resp ELSE NoPut]
           /\ lights' = IF sent THEN ServicePut(lights, power, resp) ELSE lights
    /\ last_toggle' = NoRun
    /\ between' = NoBetween
    /\ UNCHANGED <<LIFX_TOKEN, inflight, controller>>

\* controller.toggle_light(selector)
ApiToggle(get_resp, put_resp) ==
    /\ controller.exc = "none"
    /\ LET r == LIFX_toggle_light(GetAnswer(get_resp, lights), put_resp)
           put == \E i \in 1..Len(r.reqs) : r.reqs[i].method = "PUT"
           written == r.reqs[Len(r.reqs)].power
       IN  /\ call' = [NoCall EXCEPT !.op = "toggle", !.exc = r.exc,
                                     !.reqs = r.reqs, !.closes = r.closes,
                                     !.old_power = r.old_power,
                                     !.new_power = r.new_power,
                                     !.success = r.success,
                                     !.value = GetAnswer(get_resp, lights).lights,
                                     !.get = get_resp,
                                     !.put = IF put THEN put_resp ELSE NoPut]
           /\ lights' = IF put THEN ServicePut(lights, written, put_resp)
                        ELSE lights
           /\ last_toggle' =
                  LET regular == r.old_power \in Power /\ FirstOk(put_resp)
                  IN  IF r.exc # "none" THEN NoRun
                      ELSE IF last_toggle.n = 1
                      THEN [last_toggle EXCEPT
                                !.n = 2, !.new_power = r.new_power,
                                !.regular = @ /\ regular]
                      ELSE [n |-> 1, old_power |-> r.old_power,
                            before |-> lights[1], new_power |-> r.new_power,
                            regular |-> regular]
           /\ between' = AfterToggle(r.reqs)
    /\ UNCHANGED <<LIFX_TOKEN, inflight, controller>>

\* somebody else (the LIFX app, another button) switches one light
ExternalWrite(i, power) ==
    /\ i \in 1..Len(lights)
    /\ lights[i] # power
    /\ lights' = [lights EXCEPT ![i] = power]
    /\ last_toggle' = NoRun
    /\ UNCHANGED <<LIFX_TOKEN, inflight, controller, call, between>>

(***************************************************************************)
(* src/src/main.py : LightController                                       *)
(*                                                                         *)
(* A handler (button_pressed, the timer callback toggle_light) runs as one *)
(* step: MicroPython runs the scheduled callbacks one after the other,     *)
(* between two instructions of run().  Time is counted between the steps:  *)
(* `clock` is the time at which a step starts, the time a step spends      *)
(* sleeping is part of the Tick steps that follow it; inside connect_wifi, *)
(* whose wait loop reads the clock, the time slept is counted.             *)
(***************************************************************************)
VARIABLES
    clock,             \* milliseconds elapsed, never wrapping (the true time)
    accepted_at,       \* the true time of the last accepted press, -1: none
    last_button_time,  \* self.last_button_time, a ticks_ms() reading
    system_ready,      \* self.system_ready
    system_led,        \* level of the three LED outputs
    error_led,
    success_led,
    wifi,              \* self.wifi: "None" or "WLAN"
    wifi_active,       \* the station interface is active
    link,              \* what wifi.isconnected() answers
    timers,            \* one-shot timers initialised and not yet fired
    pc,                \* where run() is; "done": ended by KeyboardInterrupt,
                       \* "failed": ended by another exception
    press,             \* the run of button_pressed that led to this state
    tog,               \* the run of toggle_light that led to this state
    conn               \* the run of connect_wifi, called by run() or directly

ctlVars == <<clock, accepted_at, last_button_time, system_ready, system_led,
             error_led, success_led, wifi, wifi_active, link, timers, pc,
             press, tog, conn>>

vars == <<program, lights, apiVars, ctlVars>>

WIFI_TIMEOUT == 10000
API_TIMEOUT == 400
DEBOUNCE_TIME == 50
BLINK_DURATION == 200
POLL_MS == 100

\* MicroPython's time.ticks_ms() wraps at TICKS_PERIOD, and time.ticks_diff
\* answers in [-TICKS_PERIOD/2, TICKS_PERIOD/2 - 1]
TICKS_PERIOD == 2^30
TICKS_HALF == 2^29

ticks_ms(t) == t % TICKS_PERIOD

ticks_diff(a, b) == ((a - b + TICKS_HALF) % TICKS_PERIOD) - TICKS_HALF

\* the instants at which steps happen, the controller being constructed at
\* 0: within DEBOUNCE_TIME of the construction, DEBOUNCE_TIME after it,
\* DEBOUNCE_TIME after that, and half a period of ticks_ms later.  Several
\* steps happen at one instant: a button that bounces is pressed again
\* within the millisecond.
Instants == {0, 10, DEBOUNCE_TIME, 2 * DEBOUNCE_TIME,
             DEBOUNCE_TIME + TICKS_HALF}

\* how long after wifi.connect() the station is associated; Never: not within
\* the time connect_wifi waits
Never == WIFI_TIMEOUT + 2 * POLL_MS
AssocDelays == {250, Never}

\* The controller and what it acts on, as one record: the methods below take
\* it and give it back changed.  log lists what the running handler did,
\* opened and closes count the response objects it obtained and closed, exc
\* is the exception that left the method ("none": it returned).
Self ==
    [clock |-> clock, last_button_time |-> last_button_time,
     system_ready |-> system_ready, system_led |-> system_led,
     error_led |-> error_led, success_led |-> success_led,
     wifi |-> wifi, wifi_active |-> wifi_active, link |-> link,
     timers |-> timers, lights |-> lights, log |-> <<>>, reqs |-> <<>>,
     opened |-> 0, closes |-> 0, exc |-> "none"]

Commit(w) ==
    /\ last_button_time' = w.last_button_time
    /\ system_ready' = w.system_ready
    /\ system_led' = w.system_led
    /\ error_led' = w.error_led
    /\ success_led' = w.success_led
    /\ wifi' = w.wifi
    /\ wifi_active' = w.wifi_active
    /\ link' = w.link
    /\ timers' = w.timers
    /\ lights' = w.lights

sleep_ms(w, ms) == [w EXCEPT !.clock = @ + ms]

\* LightController.blink_system_led
blink_system_led(w) ==
    [sleep_ms(w, BLINK_DURATION) EXCEPT !.system_led = FALSE,
                                        !.log = Append(@, "blink_system")]

\* LightController.blink_success_led
blink_success_led(w) ==
    [sleep_ms(w, BLINK_DURATION) EXCEPT !.success_led = FALSE,
                                        !.log = Append(@, "blink_success")]

\* an error that shows nothing, to compare with
show_error_silent(w, duration_ms) == w

\* LightController.show_error(duration_ms)
show_error(w, duration_ms) ==
    [sleep_ms(w, duration_ms) EXCEPT !.error_led = FALSE,
                                     !.log = Append(@, "show_error")]

\* the wait loop of connect_wifi, entered at time t: the time at which it
\* ends, and whether by the timeout.  start is the ticks_ms() reading taken
\* before the loop, up_at the time from which isconnected() answers True.
\* The k-th pass runs at t + k * POLL_MS; the loop is left in the first pass
\* that finds the station connected or, failing that, the time out.
Passes == 0..(WIFI_TIMEOUT \div POLL_MS + 1)

\* a wait that looks at the link before its first pass only, to compare with
wait_connected_once(t, start, up_at) ==
    LET up(k) == k = 0 /\ t >= up_at
        late(k) == ticks_diff(ticks_ms(t + k * POLL_MS), start) > WIFI_TIMEOUT
        leaves(k) == up(k) \/ late(k)
        n == CHOOSE k \in Passes :
                 leaves(k) /\ \A j \in 0..(k - 1) : ~leaves(j)
    IN  [clock |-> t + n * POLL_MS, timeout |-> ~up(n)]

wait_connected(t, start, up_at) ==
    LET up(k) == t + k * POLL_MS >= up_at
        late(k) == ticks_diff(ticks_ms(t + k * POLL_MS), start) > WIFI_TIMEOUT
        leaves(k) == up(k) \/ late(k)
        n == CHOOSE k \in Passes :
                 leaves(k) /\ \A j \in 0..(k - 1) : ~leaves(j)
    IN  [clock |-> t + n * POLL_MS, timeout |-> ~up(n)]

\* a connect_wifi that asks for the association whether the link is up or
\* not, to compare with
connect_wifi_always(w, assoc) ==
    LET w1 == [blink_system_led(w) EXCEPT !.wifi = "WLAN", !.wifi_active = TRUE,
                                          !.log = Append(@, "connect_wifi")]
        done(x) == [x EXCEPT !.system_led = TRUE, !.system_ready = TRUE]
        r == wait_connected(w1.clock, ticks_ms(w1.clock), w1.clock + assoc)
        w2 == [w1 EXCEPT !.clock = r.clock, !.log = Append(@, "wifi.connect")]
    IN  IF r.timeout
        THEN [w2 EXCEPT !.error_led = TRUE, !.exc = "Exception"]
        ELSE done([w2 EXCEPT !.link = TRUE])

\* a connect_wifi that marks the system ready without lighting the system
\* LED, to compare with
connect_wifi_unlit(w, assoc) ==
    LET w1 == [blink_system_led(w) EXCEPT !.wifi = "WLAN", !.wifi_active = TRUE,
                                          !.log = Append(@, "connect_wifi")]
        done(x) == [x EXCEPT !.system_ready = TRUE]
    IN  IF w1.link THEN done(w1)
        ELSE LET r == wait_connected(w1.clock, ticks_ms(w1.clock),
                                     w1.clock + assoc)
                 w2 == [w1 EXCEPT !.clock = r.clock,
                                  !.log = Append(@, "wifi.connect")]
             IN  IF r.timeout
                 THEN [w2 EXCEPT !.error_led = TRUE, !.exc = "Exception"]
                 ELSE done([w2 EXCEPT !.link = TRUE])

\* LightController.connect_wifi; assoc is how long the association takes
connect_wifi(w, assoc) ==
    LET w1 == [blink_system_led(w) EXCEPT !.wifi = "WLAN", !.wifi_active = TRUE,
                                          !.log = Append(@, "connect_wifi")]
        done(x) == [x EXCEPT !.system_led = TRUE, !.system_ready = TRUE]
    IN  IF w1.link THEN done(w1)
        ELSE LET r == wait_connected(w1.clock, ticks_ms(w1.clock),
                                     w1.clock + assoc)
                 w2 == [w1 EXCEPT !.clock = r.clock,
                                  !.log = Append(@, "wifi.connect")]
             IN  IF r.timeout
                 THEN [w2 EXCEPT !.error_led = TRUE, !.exc = "Exception"]
                 ELSE done([w2 EXCEPT !.link = TRUE])

\* a make_api_request that parses the body whatever the status, to compare
\* with
make_api_request_any(w, method, url, power, resp) ==
    LET w1 == [w EXCEPT !.reqs = Append(@, Request(method, url, power))]
    IN  IF resp.transport # "ok"
        THEN [sleep_ms(w1, API_TIMEOUT) EXCEPT !.exc = "Exception"]
        ELSE IF resp.kind = "badjson"
        THEN [w1 EXCEPT !.opened = @ + 1, !.exc = "ValueError"]
        ELSE [w1 EXCEPT !.opened = @ + 1, !.closes = @ + 1]

\* LightController.make_api_request: a request that times out takes
\* API_TIMEOUT; the response is closed only after its body was parsed
make_api_request(w, method, url, power, resp) ==
    LET w1 == [w EXCEPT !.reqs = Append(@, Request(method, url, power))]
    IN  IF resp.transport # "ok"
        THEN [sleep_ms(w1, API_TIMEOUT) EXCEPT !.exc = "Exception"]
        ELSE IF resp.status \notin {200, 207}
        THEN [w1 EXCEPT !.opened = @ + 1, !.exc = "Exception"]
        ELSE IF resp.kind = "badjson"
        THEN [w1 EXCEPT !.opened = @ + 1, !.exc = "ValueError"]
        ELSE [w1 EXCEPT !.opened = @ + 1, !.closes = @ + 1]

\* a get_light_state that returns the last light of the list, to compare
\* with
get_light_state_last(w, resp) ==
    LET w1 == make_api_request(w, "GET", "lights/{light_name}/state", "none", resp)
    IN  IF w1.exc # "none" THEN [w |-> w1, value |-> "none"]
        ELSE IF Len(resp.lights) = 0
        THEN [w |-> [w1 EXCEPT !.exc = "Exception"], value |-> "none"]
        ELSE [w |-> w1,
              value |-> IF resp.kind = "nopower" THEN "nopower"
                        ELSE resp.lights[Len(resp.lights)]]

\* LightController.get_light_state: the world after it, and the light
\* object it returns ("none": it raised)
get_light_state(w, resp) ==
    LET w1 == make_api_request(w, "GET", "lights/{light_name}/state", "none", resp)
    IN  IF w1.exc # "none" THEN [w |-> w1, value |-> "none"]
        ELSE IF Len(resp.lights) = 0
        THEN [w |-> [w1 EXCEPT !.exc = "Exception"], value |-> "none"]
        ELSE [w |-> w1,
              value |-> IF resp.kind = "nopower" THEN "nopower"
                        ELSE resp.lights[1]]

\* a set_light_state that sends its PUT again when the first one failed, to
\* compare with
set_light_state_again(w, power, resp) ==
    LET url == "lights/{light_name}/state"
        w1 == make_api_request(w, "PUT", url, power, resp)
        w2 == IF w1.exc = "none" THEN w1
              ELSE make_api_request([w1 EXCEPT !.exc = "none"], "PUT", url,
                                    power, resp)
    IN  IF w2.exc # "none" THEN w2
        ELSE [w2 EXCEPT !.lights = ServicePut(@, power, resp)]

\* LightController.set_light_state(light_name, power): the response is
\* returned as it is
set_light_state(w, power, resp) ==
    LET w1 == make_api_request(w, "PUT", "lights/{light_name}/state", power, resp)
    IN  IF w1.exc # "none" THEN w1
        ELSE [w1 EXCEPT !.lights = ServicePut(@, power, resp)]

\* a toggle_light that reconnects after every failure, without asking
\* wifi.isconnected() first, to compare with
toggle_light_eager(w, get_resp, put_resp, assoc) ==
    LET g == get_light_state(w, get_resp)
        tried ==
            IF g.w.exc # "none" THEN g.w
            ELSE IF g.value = "nopower" THEN [g.w EXCEPT !.exc = "KeyError"]
            ELSE LET current_power == g.value
                     new_power == Opposite(current_power)
                     s == set_light_state(g.w, new_power, put_resp)
                 IN  IF s.exc # "none" THEN s ELSE blink_success_led(s)
    IN  IF tried.exc = "none" THEN tried
        ELSE LET e == show_error([tried EXCEPT !.exc = "none"], 1000)
             IN  IF e.wifi = "None" THEN [e EXCEPT !.exc = "AttributeError"]
                 ELSE [connect_wifi(e, assoc) EXCEPT !.exc = "none"]

\* LightController.toggle_light, the callback of the one-shot timer
toggle_light(w, get_resp, put_resp, assoc) ==
    LET g == get_light_state(w, get_resp)
        tried ==
            IF g.w.exc # "none" THEN g.w
            ELSE IF g.value = "nopower" THEN [g.w EXCEPT !.exc = "KeyError"]
            ELSE LET current_power == g.value
                     new_power == Opposite(current_power)
                     s == set_light_state(g.w, new_power, put_resp)
                 IN  IF s.exc # "none" THEN s ELSE blink_success_led(s)
    IN  IF tried.exc = "none" THEN tried
        ELSE LET e == show_error([tried EXCEPT !.exc = "none"], 1000)
             IN  IF e.wifi = "None" THEN [e EXCEPT !.exc = "AttributeError"]
                 ELSE IF e.link THEN e
                 ELSE [connect_wifi(e, assoc) EXCEPT !.exc = "none"]

\* a button_pressed that does not look at system_ready, to compare with
button_pressed_unchecked(w) ==
    LET current_time == ticks_ms(w.clock)
    IN  IF ticks_diff(current_time, w.last_button_time) < DEBOUNCE_TIME
        THEN w
        ELSE LET w1 == [w EXCEPT !.last_button_time = current_time,
                                 !.log = Append(@, "accepted")]
             IN  [blink_system_led(w1) EXCEPT !.timers = @ + 1,
                                                   !.log = Append(@, "Timer")]

\* a button_pressed that takes the time of every press, the rejected ones
\* too, to compare with
button_pressed_stamped(w) ==
    LET current_time == ticks_ms(w.clock)
        w0 == [w EXCEPT !.last_button_time = current_time]
    IN  IF ticks_diff(current_time, w.last_button_time) < DEBOUNCE_TIME
        THEN w0
        ELSE LET w1 == [w0 EXCEPT !.log = Append(@, "accepted")]
             IN  IF ~w1.system_ready THEN w1
                 ELSE [blink_system_led(w1) EXCEPT !.timers = @ + 1,
                                                   !.log = Append(@, "Timer")]

\* a button_pressed that queries the light itself instead of starting the
\* timer, to compare with
button_pressed_inline(w) ==
    LET current_time == ticks_ms(w.clock)
    IN  IF ticks_diff(current_time, w.last_button_time) < DEBOUNCE_TIME
        THEN w
        ELSE LET w1 == [w EXCEPT !.last_button_time = current_time,
                                 !.log = Append(@, "accepted")]
             IN  IF ~w1.system_ready THEN w1
                 ELSE [blink_system_led(w1) EXCEPT
                           !.reqs = Append(@, Request("GET",
                                               "lights/{light_name}/state",
                                               "none")),
                           !.log = Append(@, "Timer")]

\* LightController.button_pressed, the handler of the button interrupt
button_pressed(w) ==
    LET current_time == ticks_ms(w.clock)
    IN  IF ticks_diff(current_time, w.last_button_time) < DEBOUNCE_TIME
        THEN w
        ELSE LET w1 == [w EXCEPT !.last_button_time = current_time,
                                 !.log = Append(@, "accepted")]
             IN  IF ~w1.system_ready THEN w1
                 ELSE [blink_system_led(w1) EXCEPT !.timers = @ + 1,
                                                   !.log = Append(@, "Timer")]

\* a cleanup that leaves the WiFi interface as it is, to compare with
cleanup_leds(w) ==
    [w EXCEPT !.system_led = FALSE, !.error_led = FALSE,
              !.success_led = FALSE]

\* LightController.cleanup
cleanup(w) ==
    LET w1 == [w EXCEPT !.system_led = FALSE, !.error_led = FALSE,
                        !.success_led = FALSE]
    IN  IF w1.wifi = "None" THEN w1
        ELSE [w1 EXCEPT !.wifi_active = FALSE, !.link = FALSE]

(***************************************************************************)
(* The button controller running: the two handlers, the steps of run(),    *)
(* and the environment (time, the WiFi link).  press and tog describe the  *)
(* handler run that led to the state; every other step clears them.        *)
(***************************************************************************)
NoPress == [ran |-> FALSE, since |-> -1, accepted |-> FALSE,
            dispatched |-> FALSE, ready |-> FALSE, leds |-> <<>>,
            timers |-> 0, log |-> <<>>, reqs |-> <<>>]

\* get and put are the answers to the toggle's requests; wifi and link are
\* what self.wifi and the link were when toggle_light was entered
NoTog == [ran |-> FALSE, exc |-> "none", reqs |-> <<>>, opened |-> 0,
          closes |-> 0, log |-> <<>>, queried |-> "none", written |-> "none",
          get |-> NoAnswer, put |-> NoPut, wifi |-> "None", link |-> FALSE]

\* by is who called connect_wifi, link what the link was when it was
\* entered, spent the time it took, assoc how long the association it asked
\* for takes
NoConn == [ran |-> FALSE, by |-> "none", link |-> FALSE, log |-> <<>>,
           spent |-> 0, exc |-> "none", assoc |-> 0]

Conn(w, by, assoc) ==
    [ran |-> TRUE, by |-> by, link |-> link, log |-> w.log,
     spent |-> w.clock - clock, exc |-> w.exc,
     assoc |-> assoc]

Has(log, what) == \E i \in 1..Len(log) : log[i] = what

\* the button interrupt fires: button_pressed runs
Press ==
    /\ program = "button"
    /\ \E w \in {button_pressed(Self)} :
           /\ Commit(w)
           /\ press' = [ran |-> TRUE,
                        since |-> IF accepted_at < 0 THEN -1
                                  ELSE clock - accepted_at,
                        accepted |-> Has(w.log, "accepted"),
                        dispatched |-> Has(w.log, "Timer"),
                        ready |-> system_ready,
                        leds |-> <<system_led, error_led, success_led>>,
                        timers |-> timers, log |-> w.log, reqs |-> w.reqs]
           /\ accepted_at' = IF Has(w.log, "accepted") THEN clock
                             ELSE accepted_at
    /\ tog' = NoTog /\ conn' = NoConn
    /\ UNCHANGED <<program, apiVars, clock, pc>>

\* what the environment has to answer in a toggle: no PUT answer is drawn
\* when no PUT is issued, no association delay when no reconnection is tried
TogglePuts(w, get_resp) ==
    LET r == toggle_light(w, get_resp, PutTimeout(Len(w.lights)), 0)
    IN  IF \E i \in 1..Len(r.reqs) : r.reqs[i].method = "PUT"
        THEN PutResponses(Len(w.lights))
        ELSE {PutTimeout(Len(w.lights))}

ToggleDelays(w, get_resp, put_resp) ==
    IF Has(toggle_light(w, get_resp, put_resp, 0).log, "connect_wifi")
    THEN AssocDelays ELSE {Never}

\* the record of the run of toggle_light that ended in w
Tog(w, get_resp, put_resp) ==
    LET put == \E i \in 1..Len(w.reqs) : w.reqs[i].method = "PUT"
    IN  [ran |-> TRUE, exc |-> w.exc, reqs |-> w.reqs, opened |-> w.opened,
         closes |-> w.closes, log |-> w.log,
         queried |-> get_light_state(Self, GetAnswer(get_resp, lights)).value,
         written |-> IF put THEN w.reqs[Len(w.reqs)].power ELSE "none",
         get |-> get_resp, put |-> IF put THEN put_resp ELSE NoPut,
         wifi |-> wifi, link |-> link]

\* a one-shot timer fires: toggle_light runs
TimerFires(get_resp, put_resp, assoc) ==
    /\ program = "button"
    /\ timers > 0
    /\ \E w \in {toggle_light([Self EXCEPT !.timers = @ - 1],
                              GetAnswer(get_resp, lights), put_resp, assoc)} :
           /\ Commit(w)
           /\ tog' = Tog(w, get_resp, put_resp)
    /\ press' = NoPress /\ conn' = NoConn
    /\ UNCHANGED <<program, apiVars, clock, accepted_at, pc>>

\* run(): the first connect_wifi(); its failure ends run() in the handler
\* of Exception, which shows the error and calls cleanup()
RunStart(assoc) ==
    /\ program = "button"
    /\ pc = "start"
    /\ \E w \in {connect_wifi(Self, assoc)} :
           /\ conn' = Conn(w, "run", assoc)
           /\ IF w.exc = "none"
              THEN Commit(w) /\ pc' = "loop"
              ELSE /\ Commit(cleanup(show_error([w EXCEPT !.exc = "none"],
                                                3000)))
                   /\ pc' = "failed"
    /\ press' = NoPress /\ tog' = NoTog
    /\ UNCHANGED <<program, apiVars, clock, accepted_at>>

\* a loop that tries to reconnect without marking the system as not
\* ready first, to compare with
RunLoop_unmarked ==
    /\ program = "button"
    /\ pc = "loop"
    /\ IF link
       THEN /\ pc' = "sleep"
            /\ UNCHANGED <<system_ready, system_led>>
       ELSE /\ pc' = "reconnect"
            /\ UNCHANGED <<system_ready, system_led>>
    /\ press' = NoPress /\ tog' = NoTog /\ conn' = NoConn
    /\ UNCHANGED <<program, lights, apiVars, clock, accepted_at,
                   last_button_time, error_led, success_led, wifi, wifi_active,
                   link, timers>>

\* run(): the top of the main loop, the check of the link
RunLoop ==
    /\ program = "button"
    /\ pc = "loop"
    /\ IF link
       THEN /\ pc' = "sleep"
            /\ UNCHANGED <<system_ready, system_led>>
       ELSE /\ pc' = "reconnect"
            /\ system_ready' = FALSE
            /\ system_led' = FALSE
    /\ press' = NoPress /\ tog' = NoTog /\ conn' = NoConn
    /\ UNCHANGED <<program, lights, apiVars, clock, accepted_at,
                   last_button_time, error_led, success_led, wifi, wifi_active,
                   link, timers>>

\* run(): the reconnection of the main loop; after a failure the error is
\* shown for 2 s and the loop starts again 5 s later
RunReconnect(assoc) ==
    /\ program = "button"
    /\ pc = "reconnect"
    /\ \E w \in {connect_wifi(Self, assoc)} :
           /\ conn' = Conn(w, "loop", assoc)
           /\ IF w.exc = "none"
              THEN Commit(w) /\ pc' = "sleep"
              ELSE /\ Commit(sleep_ms(show_error([w EXCEPT !.exc = "none"],
                                                 2000), 5000))
                   /\ pc' = "loop"
    /\ press' = NoPress /\ tog' = NoTog
    /\ UNCHANGED <<program, apiVars, clock, accepted_at>>

\* run(): gc.collect() and time.sleep(30)
RunSleep ==
    /\ program = "button"
    /\ pc = "sleep"
    /\ pc' = "loop"
    /\ press' = NoPress /\ tog' = NoTog /\ conn' = NoConn
    /\ UNCHANGED <<program, lights, apiVars, clock, accepted_at,
                   last_button_time, system_ready, system_led, error_led,
                   success_led, wifi, wifi_active, link, timers>>

\* run(): KeyboardInterrupt, run() ends in cleanup()
Interrupt ==
    /\ program = "button"
    /\ pc \in {"start", "loop", "reconnect", "sleep"}
    /\ Commit(cleanup(Self))
    /\ pc' = "done"
    /\ press' = NoPress /\ tog' = NoTog /\ conn' = NoConn
    /\ UNCHANGED <<program, apiVars, clock, accepted_at>>

\* time passes
Tick(t) ==
    /\ program = "button"
    /\ t > clock
    /\ clock' = t
    /\ press' = NoPress /\ tog' = NoTog /\ conn' = NoConn
    /\ UNCHANGED <<program, lights, apiVars, accepted_at, last_button_time,
                   system_ready, system_led, error_led, success_led, wifi,
                   wifi_active, link, timers, pc>>

\* the station loses its association
LinkLost ==
    /\ program \in {"button", "calls"}
    /\ link
    /\ link' = FALSE
    /\ press' = NoPress /\ tog' = NoTog /\ conn' = NoConn
    /\ UNCHANGED <<program, lights, apiVars, clock, accepted_at,
                   last_button_time, system_ready, system_led, error_led,
                   success_led, wifi, wifi_active, timers, pc>>

\* the state right after LightController() (setup_hardware, __init__)
CtlInit ==
    /\ clock = 0
    /\ accepted_at = -1
    /\ last_button_time = 0
    /\ system_ready = FALSE
    /\ system_led = FALSE
    /\ error_led = FALSE
    /\ success_led = FALSE
    /\ wifi = "None"
    /\ wifi_active = FALSE
    /\ link = FALSE
    /\ timers = 0
    /\ pc = "start"
    /\ press = NoPress
    /\ tog = NoTog
    /\ conn = NoConn

\* the calls on a controller constructed with the configured token
ApiInit ==
    /\ LIFX_TOKEN = [origin |-> "secrets", len |-> TOKEN_LENGTH]
    /\ controller = LIFXController_init(NoToken, LIFX_TOKEN)
    /\ call = NoCall
    /\ last_toggle = NoRun
    /\ between = NoBetween
    /\ inflight = NoPair

Init ==
    /\ program \in {"api", "button"}
    /\ lights \in LightLists
    /\ ApiInit
    /\ CtlInit

NextApi ==
    /\ program = "api"
    /\ UNCHANGED <<program, ctlVars>>
    /\ \/ \E resp \in GetResponses : ApiGet(resp)
       \/ \E power \in {"None"} \cup Power, brightness \in {"None", "0.7"} :
             \E resp \in SetAnswers(power, brightness, lights) :
                 ApiSet(power, brightness, "None", resp)
       \/ \E get_resp \in GetResponses :
             \E put_resp \in PutAnswers(get_resp, lights) :
                 ApiToggle(get_resp, put_resp)
       \/ \E i \in 1..MaxLights, power \in Power : ExternalWrite(i, power)
       \/ \E resp \in GetResponses : ApiValidate(resp)

NextButton ==
    \/ Press
    \/ \E get_resp \in GetResponses :
          \E put_resp \in TogglePuts(Self, GetAnswer(get_resp, lights)) :
              \E assoc \in ToggleDelays(Self, GetAnswer(get_resp, lights),
                                        put_resp) :
                  TimerFires(get_resp, put_resp, assoc)
    \/ \E assoc \in (IF link THEN {Never} ELSE AssocDelays) : RunStart(assoc)
    \/ RunLoop
    \/ \E assoc \in (IF link THEN {Never} ELSE AssocDelays) : RunReconnect(assoc)
    \/ RunSleep
    \/ Interrupt
    \/ \E t \in Instants : Tick(t)
    \/ LinkLost

Next == NextApi \/ NextButton

Spec == Init /\ [][Next]_vars

\* _make_request alone, called on a constructed LIFXController with every
\* method and every answer
InitRequest ==
    /\ program = "api"
    /\ lights \in LightLists
    /\ ApiInit
    /\ CtlInit

NextRequest ==
    /\ UNCHANGED <<program, ctlVars>>
    /\ \E method \in Methods :
          \E power \in (IF method = "PUT" THEN Power ELSE {"none"}) :
              \E resp \in RequestAnswers(method, lights) :
                  ApiRequest(method, power, resp)

SpecRequest == InitRequest /\ [][NextRequest]_vars

\* The button controller with run() making progress: its loop is
\* sequential code, so each of its steps is taken once it is its turn (the
\* handlers only interrupt it), and an access point that is in reach
\* answers: of the reconnections tried again and again, one is tried while
\* the association completes in time.  The supervision of the link does not
\* read the lights, so the selector resolves to at most one light here.
InitButton ==
    /\ program = "button"
    /\ lights \in {ls \in LightLists : Len(ls) <= 1}
    /\ ApiInit
    /\ CtlInit

FairRun ==
    /\ WF_vars(RunLoop)
    /\ WF_vars(RunSleep)
    /\ WF_vars(\E assoc \in AssocDelays : RunReconnect(assoc))
    /\ SF_vars(\E assoc \in AssocDelays \ {Never} : RunReconnect(assoc))

SpecRun == InitButton /\ [][NextButton]_vars /\ FairRun

(***************************************************************************)
(* The methods of a LightController called one by one, as the tests and a  *)
(* REPL session do, from the state LightController() leaves: toggle_light  *)
(* and connect_wifi in any order, the link coming and going.               *)
(***************************************************************************)
\* controller.connect_wifi()
CallConnect(assoc) ==
    /\ program = "calls"
    /\ \E w \in {connect_wifi(Self, assoc)} :
           /\ Commit(w)
           /\ conn' = Conn(w, "call", assoc)
    /\ press' = NoPress /\ tog' = NoTog
    /\ UNCHANGED <<program, apiVars, clock, accepted_at, pc>>

\* controller.toggle_light()
CallToggle(get_resp, put_resp, assoc) ==
    /\ program = "calls"
    /\ \E w \in {toggle_light(Self, GetAnswer(get_resp, lights), put_resp,
                              assoc)} :
           /\ Commit(w)
           /\ tog' = Tog(w, get_resp, put_resp)
    /\ press' = NoPress /\ conn' = NoConn
    /\ UNCHANGED <<program, apiVars, clock, accepted_at, pc>>

InitCalls ==
    /\ program = "calls"
    /\ lights \in LightLists
    /\ ApiInit
    /\ CtlInit

NextCalls ==
    \/ \E assoc \in (IF link THEN {Never} ELSE AssocDelays) : CallConnect(assoc)
    \/ \E get_resp \in GetResponses :
          \E put_resp \in TogglePuts(Self, GetAnswer(get_resp, lights)) :
              \E assoc \in ToggleDelays(Self, GetAnswer(get_resp, lights),
                                        put_resp) :
                  CallToggle(get_resp, put_resp, assoc)
    \/ LinkLost

SpecCalls == InitCalls /\ [][NextCalls]_vars

\* The same calls on a controller constructed at any of a few readings of
\* the millisecond clock: at its start, and shortly before ticks_ms() passes
\* half its period and its whole period, so that the wait of connect_wifi
\* runs across them.
BootClocks ==
    {0, TICKS_HALF - 2 * POLL_MS, TICKS_HALF - WIFI_TIMEOUT \div 2,
     TICKS_PERIOD - 2 * POLL_MS, TICKS_PERIOD - WIFI_TIMEOUT \div 2}

InitBoot ==
    /\ program = "calls"
    /\ lights \in LightLists
    /\ ApiInit
    /\ clock \in BootClocks
    /\ accepted_at = -1
    /\ last_button_time = 0
    /\ system_ready = FALSE
    /\ system_led = FALSE
    /\ error_led = FALSE
    /\ success_led = FALSE
    /\ wifi = "None"
    /\ wifi_active = FALSE
    /\ link = FALSE
    /\ timers = 0
    /\ pc = "start"
    /\ press = NoPress
    /\ tog = NoTog
    /\ conn = NoConn

SpecBoot == InitBoot /\ [][NextCalls]_vars

(***************************************************************************)
(* Two LIFXControllers, each calling toggle_light once on the same         *)
(* selector.  The service sees the two requests of a toggle as two events, *)
(* so a toggle is two steps here, its GET and its PUT, and the steps of    *)
(* the two controllers interleave.  Nobody else writes.                    *)
(***************************************************************************)
Controllers == {1, 2}

\* a controller that has not called toggle_light yet
Idle == [pc |-> "idle", old_power |-> "none", new_power |-> "none",
         regular |-> FALSE]

\* toggle_light of controller c up to its PUT: the query, the power of the
\* first light, its opposite
PairGet(c, resp) ==
    /\ program = "pair"
    /\ inflight.ctl[c].pc = "idle"
    /\ LET g == LIFX_get_light_state(GetAnswer(resp, lights))
           failed == g.exc # "none" \/ Len(g.value) = 0 \/ g.kind = "nopower"
       IN  inflight' =
               [inflight EXCEPT !.ctl[c] =
                   IF failed THEN [Idle EXCEPT !.pc = "failed"]
                   ELSE [pc |-> "read", old_power |-> g.value[1],
                         new_power |-> Opposite(g.value[1]),
                         regular |-> g.value[1] \in Power]]
    /\ UNCHANGED <<program, lights, LIFX_TOKEN, controller, call, last_toggle,
                   between, ctlVars>>

\* toggle_light of controller c from its PUT on
PairPut(c, resp) ==
    /\ program = "pair"
    /\ inflight.ctl[c].pc = "read"
    /\ LET new_power == inflight.ctl[c].new_power
           s == LIFX_set_light_state(new_power, "None", "None", resp)
       IN  /\ lights' = ServicePut(lights, new_power, resp)
           /\ inflight' =
                  [inflight EXCEPT
                      !.ctl[c].pc = IF s.exc = "none" THEN "done" ELSE "failed",
                      !.ctl[c].regular = @ /\ FirstOk(resp)]
    /\ UNCHANGED <<program, LIFX_TOKEN, controller, call, last_toggle,
                   between, ctlVars>>

InitPair ==
    /\ program = "pair"
    /\ lights \in LightLists
    /\ LIFX_TOKEN = [origin |-> "secrets", len |-> TOKEN_LENGTH]
    /\ controller = LIFXController_init(NoToken, LIFX_TOKEN)
    /\ call = NoCall
    /\ last_toggle = NoRun
    /\ between = NoBetween
    /\ inflight = [original |-> lights, ctl |-> [c \in Controllers |-> Idle]]
    /\ CtlInit

NextPair ==
    \/ \E c \in Controllers, resp \in GetResponses : PairGet(c, resp)
    \/ \E c \in Controllers, resp \in PutResponses(Len(lights)) :
          PairPut(c, resp)

SpecPair == InitPair /\ [][NextPair]_vars

(***************************************************************************)
(* The toggles of the two clients with another party on the same lights:   *)
(* toggle_light of a LIFXController and toggle_light of a LightController  *)
(* are called in any order, and somebody else switches lights as well.     *)
(***************************************************************************)
\* controller.toggle_light(selector) on the LIFXController
PartiesApiToggle(get_resp, put_resp) ==
    /\ program = "parties"
    /\ ApiToggle(get_resp, put_resp)
    /\ press' = NoPress /\ tog' = NoTog /\ conn' = NoConn
    /\ UNCHANGED <<program, clock, accepted_at, last_button_time,
                   system_ready, system_led, error_led, success_led, wifi,
                   wifi_active, link, timers, pc>>

\* controller.toggle_light() on the LightController; for the other client
\* it is somebody writing between its toggles
PartiesToggle(get_resp, put_resp) ==
    /\ program = "parties"
    /\ \E w \in {toggle_light(Self, GetAnswer(get_resp, lights), put_resp,
                              Never)} :
           /\ Commit(w)
           /\ tog' = Tog(w, get_resp, put_resp)
           /\ between' = AfterToggle(w.reqs)
    /\ call' = NoCall /\ last_toggle' = NoRun
    /\ press' = NoPress /\ conn' = NoConn
    /\ UNCHANGED <<program, LIFX_TOKEN, inflight, controller, clock, accepted_at, pc>>

\* somebody else (the LIFX app, another button) switches one light
OtherParty(i, power) ==
    /\ program = "parties"
    /\ i \in 1..Len(lights)
    /\ lights[i] # power
    /\ lights' = [lights EXCEPT ![i] = power]
    /\ last_toggle' = NoRun
    /\ between' = IF i = 1 THEN [NoBetween EXCEPT !.toggled = between.toggled,
                                                  !.external = power]
                  ELSE between
    /\ call' = NoCall
    /\ press' = NoPress /\ tog' = NoTog /\ conn' = NoConn
    /\ UNCHANGED <<program, LIFX_TOKEN, inflight, controller, clock, accepted_at,
                   last_button_time, system_ready, system_led, error_led,
                   success_led, wifi, wifi_active, link, timers, pc>>

InitParties ==
    /\ program = "parties"
    /\ lights \in LightLists
    /\ ApiInit
    /\ CtlInit

NextParties ==
    \/ \E get_resp \in GetResponses :
          \E put_resp \in PutAnswers(get_resp, lights) :
              PartiesApiToggle(get_resp, put_resp)
    \/ \E get_resp \in GetResponses :
          \E put_resp \in TogglePuts(Self, GetAnswer(get_resp, lights)) :
              PartiesToggle(get_resp, put_resp)
    \/ \E i \in 1..MaxLights, power \in Power : OtherParty(i, power)

SpecParties == InitParties /\ [][NextParties]_vars

\* construction alone: every token against every configured token
InitToken ==
    /\ program = "api"
    /\ lights = <<>>
    /\ LIFX_TOKEN \in SecretTokens
    /\ controller = [exc |-> "unconstructed", api_token |-> NoToken]
    /\ call = NoCall
    /\ last_toggle = NoRun
    /\ between = NoBetween
    /\ inflight = NoPair
    /\ CtlInit

NextToken ==
    /\ \E tok \in {NoToken} \cup ArgTokens : ApiConstruct(tok)
    /\ UNCHANGED <<program, ctlVars>>

SpecToken == InitToken /\ [][NextToken]_vars

(***************************************************************************)
(* Properties.  call describes the last call on the LIFXController, press  *)
(* and tog the handler of the LightController that has just run.           *)
(***************************************************************************)
\* the PUT requests among the requests of one call
Puts(reqs) == {i \in 1..Len(reqs) : reqs[i].method = "PUT"}

\* C1: debounce gate of button_pressed.  A press less than DEBOUNCE_TIME
\* after the last accepted press is rejected and dispatches no toggle; a
\* press DEBOUNCE_TIME or more after it is accepted; an accepted press leaves
\* its own time in last_button_time.
C1_DebounceGate ==
    (press.ran /\ press.since >= 0) =>
        /\ press.since < DEBOUNCE_TIME =>
               ~press.accepted /\ ~press.dispatched
        /\ press.since >= DEBOUNCE_TIME => press.accepted
        /\ press.accepted => last_button_time = ticks_ms(clock)

\* C2: a press before which no press was accepted (the first press is one)
\* is accepted, whatever the clock reads.
C2_FirstPressAccepted ==
    (press.ran /\ press.since = -1) => press.accepted

\* C3: direction and result of a toggle, in both controllers.  A toggle
\* that queried 'on' writes 'off', one that queried 'off' writes 'on', and
\* nothing but 'on' and 'off' is written; a successful
\* LIFXController.toggle_light returns the queried power as old_power, the
\* written power as new_power, and success True.
C3_ToggleDirection ==
    /\ (call.op = "toggle" /\ Puts(call.reqs) # {}) =>
           \A i \in Puts(call.reqs) :
               /\ call.reqs[i].power \in Power
               /\ call.value[1] = "on" => call.reqs[i].power = "off"
               /\ call.value[1] = "off" => call.reqs[i].power = "on"
    /\ (call.op = "toggle" /\ call.exc = "none") =>
           /\ Puts(call.reqs) # {}
           /\ call.old_power = call.value[1]
           /\ \A i \in Puts(call.reqs) : call.new_power = call.reqs[i].power
           /\ call.old_power \in Power => call.new_power # call.old_power
           /\ call.success
    /\ (tog.ran /\ Puts(tog.reqs) # {}) =>
           \A i \in Puts(tog.reqs) :
               /\ tog.reqs[i].power \in Power
               /\ tog.queried = "on" => tog.reqs[i].power = "off"
               /\ tog.queried = "off" => tog.reqs[i].power = "on"

C3_Witness ==
    /\ call.op = "toggle"
    /\ call.exc = "none"
    /\ call.value[1] = "on"
    /\ call.new_power = "off"

\* C4: a toggle whose query returns a power that is neither 'on' nor 'off'
\* fails and issues no write, in both controllers.
C4_ThirdPowerFails ==
    /\ (call.op = "toggle" /\ Len(call.value) > 0
            /\ call.get.status = 200 /\ call.get.kind \in {"json", "oddpower"}
            /\ call.value[1] \notin Power) =>
           call.exc # "none" /\ Puts(call.reqs) = {}
    /\ (tog.ran /\ tog.queried \notin Power \cup {"none", "nopower"}) =>
           /\ Puts(tog.reqs) = {}
           /\ Has(tog.log, "show_error")
           /\ ~Has(tog.log, "blink_success")

\* C5: in the button controller, a toggle whose state query fails issues no
\* write, and gives the error pulse and not the success pulse.
C5_FailedQueryNoWrite ==
    (tog.ran /\ tog.queried = "none") =>
        /\ Puts(tog.reqs) = {}
        /\ Has(tog.log, "show_error")
        /\ ~Has(tog.log, "blink_success")

C5_Witness ==
    /\ tog.ran
    /\ tog.queried = "none"
    /\ Len(tog.reqs) = 1
    /\ tog.reqs[1].method = "GET"
    /\ Has(tog.log, "show_error")

\* C6, as stated: after two successful toggles in a row, nobody else writing
\* between them, the second returns as new_power what the first returned as
\* old_power, and the first light has the power it had before the first.
C6_Involution ==
    last_toggle.n = 2 =>
        /\ last_toggle.new_power = last_toggle.old_power
        /\ lights[1] = last_toggle.before

\* C6, amended: the same, for two toggles that each queried 'on' or 'off'
\* and had their write reported 'ok' for the first light.
C6_InvolutionRegular ==
    (last_toggle.n = 2 /\ last_toggle.regular) =>
        /\ last_toggle.new_power = last_toggle.old_power
        /\ lights[1] = last_toggle.before

C6_Witness ==
    /\ last_toggle.n = 2
    /\ last_toggle.regular
    /\ last_toggle.before = "on"
    /\ lights[1] = "on"
    /\ call.op = "toggle"

\* C7: LIFXController.set_light_state, the response holding a results list:
\* with at least one 'ok' entry it returns, with none it raises.
C7_BulkWrite ==
    (call.op = "set" /\ call.put.status = 207 /\ call.put.kind = "json") =>
        /\ (\E i \in 1..Len(call.put.results) : call.put.results[i] = "ok")
               => call.exc = "none"
        /\ (\A i \in 1..Len(call.put.results) : call.put.results[i] # "ok")
               => call.exc = "LIFXAPIError"

C7_Witness ==
    /\ call.op = "set"
    /\ call.put.status = 207
    /\ call.put.kind = "json"
    /\ call.put.results = <<"ok", "offline">>
    /\ call.exc = "none"

\* C8: in the button controller, a toggle gives the success pulse only if
\* the response to its write holds a result with status 'ok'; a response
\* whose results are all not 'ok' gives the error pulse and no success pulse.
C8_SuccessNeedsOk ==
    /\ (tog.ran /\ Has(tog.log, "blink_success")) =>
           /\ tog.put.kind = "json"
           /\ \E i \in 1..Len(tog.put.results) : tog.put.results[i] = "ok"
    /\ (tog.ran /\ tog.put.status = 207 /\ tog.put.kind = "json"
            /\ \A i \in 1..Len(tog.put.results) : tog.put.results[i] # "ok") =>
           Has(tog.log, "show_error") /\ ~Has(tog.log, "blink_success")

\* C9: a state query answered with an empty list raises, and a query that
\* returns never returns an empty list, in both controllers.
C9_EmptyQueryRaises ==
    /\ (call.op = "get" /\ Len(lights) = 0) => call.exc = "LIFXAPIError"
    /\ (call.op = "get" /\ call.exc = "none") => Len(call.value) > 0
    /\ (tog.ran /\ Len(lights) = 0) => tog.queried = "none"
    /\ (tog.ran /\ tog.queried # "none") => Len(lights) > 0

C9_Witness ==
    /\ call.op = "get"
    /\ call.get.status = 200
    /\ call.get.kind = "json"
    /\ Len(lights) = 0
    /\ call.closes = 1
    /\ call.exc = "LIFXAPIError"

\* C10: LIFXController(api_token) with a token supplied raises for every
\* length other than TOKEN_LENGTH, the empty string included, and succeeds
\* for the length TOKEN_LENGTH.
C10_TokenLength ==
    (call.op = "init" /\ call.arg.origin = "arg") =>
        /\ call.arg.len # TOKEN_LENGTH => controller.exc = "LIFXAPIError"
        /\ call.arg.len = TOKEN_LENGTH => controller.exc = "none"

\* C11: every response object a request obtained is closed exactly once
\* before the call returns or raises, in both clients: the responses closed
\* in a call are as many as the responses obtained in it.
C11_ClosedOnce ==
    /\ call.op \in {"get", "set", "toggle"} =>
           call.closes = (IF call.get.transport = "ok" THEN 1 ELSE 0)
                         + (IF call.put.transport = "ok" THEN 1 ELSE 0)
    /\ tog.ran => tog.closes = tog.opened

\* C12: every failure of LIFXController.get_light_state, set_light_state
\* and toggle_light reaches the caller as LIFXAPIError and as no other type
\* of exception.
C12_OnlyLIFXAPIError ==
    call.op \in {"get", "set", "toggle"} =>
        call.exc \in {"none", "LIFXAPIError"}

C12_Witness ==
    /\ call.op = "toggle"
    /\ call.get.transport = "timeout"
    /\ call.exc = "LIFXAPIError"

\* C13: LightController.toggle_light never lets an exception reach its
\* caller, whatever the API answers and whatever the WiFi is (connected, not
\* connected, or self.wifi still None because connect_wifi was never called).
C13_ToggleNeverRaises ==
    tog.ran => tog.exc = "none"

\* how often a handler did `what`
Count(log, what) == Cardinality({i \in 1..Len(log) : log[i] = what})

\* C14: a toggle that failed calls connect_wifi exactly once if it finds the
\* link down and not at all if the link is up; a toggle that succeeded does
\* not call it; and no toggle calls it twice, so a reconnection that failed
\* is not tried again within the toggle.
C14_ReconnectOnce ==
    tog.ran =>
        /\ Count(tog.log, "connect_wifi") <= 1
        /\ (Has(tog.log, "show_error") /\ tog.wifi # "None") =>
               Count(tog.log, "connect_wifi") = IF tog.link THEN 0 ELSE 1
        /\ ~Has(tog.log, "show_error") => Count(tog.log, "connect_wifi") = 0

C14_Witness ==
    /\ tog.ran
    /\ Has(tog.log, "show_error")
    /\ ~tog.link
    /\ Count(tog.log, "connect_wifi") = 1
    /\ Count(tog.log, "wifi.connect") = 1
    /\ ~link

\* C15: a press that passes the debounce gate while system_ready is False
\* is ignored: the handler does nothing but take the time of the press, so
\* no LED is switched on (every LED keeps its level), no toggle is scheduled
\* and no API request is issued.
C15_NotReadyIgnored ==
    (press.ran /\ press.accepted /\ ~press.ready) =>
        /\ ~press.dispatched
        /\ timers = press.timers
        /\ press.log = <<"accepted">>
        /\ <<system_led, error_led, success_led>> = press.leds

C15_Witness ==
    /\ press.ran
    /\ press.accepted
    /\ ~press.ready
    /\ ~system_ready
    /\ last_button_time = ticks_ms(clock)

\* C16: no error indication is sticky: the error LED is off after a toggle
\* that failed, its reconnection having failed or not, and after a
\* connect_wifi of run() that failed.
C16_ErrorNotSticky ==
    /\ (tog.ran /\ Has(tog.log, "show_error")) => error_led = FALSE
    /\ (conn.ran /\ conn.exc # "none") => error_led = FALSE

\* C17: each LED pulse restores the level the output had before it: after
\* the activity pulse of a press that dispatched a toggle the LEDs are as
\* they were before the press, and the system LED is on, as system_ready
\* holds.
C17_PulseRestores ==
    (press.ran /\ press.dispatched) =>
        /\ <<system_led, error_led, success_led>> = press.leds
        /\ system_led = system_ready

\* C18: connect_wifi called while the link is up asks for no association
\* (wifi.connect is not called), waits for nothing (it takes the time of its
\* activity pulse and no more), and returns with system_ready True and the
\* system LED on, as after one successful call.
C18_ConnectIdempotent ==
    (conn.ran /\ conn.link) =>
        /\ ~Has(conn.log, "wifi.connect")
        /\ conn.spent = BLINK_DURATION
        /\ conn.exc = "none"
        /\ system_ready /\ system_led
        /\ link /\ wifi = "WLAN" /\ wifi_active

C18_Witness ==
    /\ conn.ran
    /\ conn.link
    /\ conn.by = "call"
    /\ conn.log = <<"blink_system", "connect_wifi">>
    /\ system_ready

\* C19: whenever connect_wifi fails with the WiFi connection timeout,
\* system_ready is False afterwards, on every path that calls it: at the
\* start of run(), in the loop of run(), and in toggle_light's reconnection
\* (a toggle that called connect_wifi and left the link down).
C19_TimeoutLeavesNotReady ==
    /\ (conn.ran /\ conn.exc # "none") => ~system_ready
    /\ (tog.ran /\ Has(tog.log, "connect_wifi") /\ ~link) => ~system_ready

\* C20: a WiFi timeout never ends run(): after a connect_wifi of run() that
\* timed out, at the start or in the loop, run() is still running and about
\* to try again; it has not cleaned up and returned.
C20_TimeoutNotFatal ==
    (conn.ran /\ conn.by \in {"run", "loop"} /\ conn.exc # "none") =>
        /\ pc \in {"start", "loop", "reconnect"}
        /\ wifi_active

Accepted(resp) == resp.transport = "ok" /\ resp.status \in {200, 207}

\* an answer arrived and its status is not one the clients take
Refused(resp) == resp.transport = "ok" /\ resp.status \notin {200, 207}

\* C22: a response is taken only with status 200 or 207.  In the API client
\* a call whose GET or PUT was answered with another status raises, returns
\* no state and reports no success, and a call that returned had every
\* answer with 200 or 207; in the button controller the toggle whose GET or
\* PUT was answered with another status got no light state from the query,
\* did not parse the body (the response stays unclosed), shows the error and
\* no success, and a refused GET is followed by no PUT.
C22_StatusGate ==
    /\ (call.op \in {"get", "toggle"} /\ Refused(call.get)) =>
           /\ call.exc = "LIFXAPIError"
           /\ call.op = "get" => call.value = <<>>
           /\ call.old_power = "none" /\ ~call.success
           /\ Puts(call.reqs) = {}
    /\ (call.op \in {"set", "toggle"} /\ Refused(call.put)) =>
           /\ call.exc = "LIFXAPIError"
           /\ call.old_power = "none" /\ ~call.success
    /\ (call.op = "get" /\ call.exc = "none") => Accepted(call.get)
    /\ (call.op = "set" /\ call.exc = "none") => Accepted(call.put)
    /\ (call.op = "toggle" /\ call.exc = "none") =>
           Accepted(call.get) /\ Accepted(call.put)
    /\ (tog.ran /\ Refused(tog.get)) =>
           /\ tog.queried = "none"
           /\ tog.written = "none"
           /\ Len(tog.reqs) = 1
           /\ tog.opened = 1 /\ tog.closes = 0
           /\ Has(tog.log, "show_error") /\ ~Has(tog.log, "blink_success")
    /\ (tog.ran /\ Refused(tog.put)) =>
           /\ tog.opened = 2 /\ tog.closes = 1
           /\ Has(tog.log, "show_error") /\ ~Has(tog.log, "blink_success")
    /\ (tog.ran /\ Has(tog.log, "blink_success")) =>
           Accepted(tog.get) /\ Accepted(tog.put)

C22_Witness ==
    /\ tog.ran
    /\ Refused(tog.put)
    /\ tog.queried \in Power
    /\ Has(tog.log, "show_error")

\* C23: a connect_wifi that returned (called by run(), or by toggle_light
\* which then finds the link up) leaves system_ready True and the system
\* LED on; system_ready is False after construction, while no connect_wifi
\* has been called, and only a step in which connect_wifi returns makes it
\* True.
C23_ReadyByConnect ==
    /\ []((conn.ran /\ conn.exc = "none") => (system_ready /\ system_led))
    /\ []((tog.ran /\ Has(tog.log, "connect_wifi") /\ link) =>
              (system_ready /\ system_led))
    /\ [](wifi = "None" => ~system_ready)
    /\ [][(~system_ready /\ system_ready') =>
              \/ conn'.ran /\ conn'.exc = "none"
              \/ tog'.ran /\ Has(tog'.log, "connect_wifi") /\ link']_vars

C23_Witness ==
    /\ conn.ran
    /\ conn.by = "run"
    /\ conn.exc = "none"
    /\ Has(conn.log, "wifi.connect")
    /\ system_ready /\ system_led
    /\ pc = "loop"

\* C24: the step in which run() ends, by KeyboardInterrupt or by the failure
\* of the first connect_wifi, runs cleanup(): whatever the state before it,
\* the three LEDs are off after it and the WiFi interface, when there is
\* one, is not active.
C24_CleanupLeavesOff ==
    [][(pc \notin {"done", "failed"} /\ pc' \in {"done", "failed"}) =>
           /\ ~system_led' /\ ~error_led' /\ ~success_led'
           /\ wifi' = wifi \/ (wifi = "None" /\ pc' = "failed")
           /\ wifi' # "None" => ~wifi_active']_vars

C24_Witness ==
    /\ pc = "done"
    /\ ~press.ran /\ ~tog.ran
    /\ system_ready
    /\ wifi = "WLAN" /\ ~wifi_active
    /\ ~system_led /\ ~error_led /\ ~success_led

\* the requests of one toggle, in the order they were issued, given the
\* answer to its GET: one GET first, then nothing or one PUT, and a PUT only
\* when the GET was answered with a status the client takes
OneGetOnePut(reqs, get) ==
    /\ Len(reqs) \in {1, 2}
    /\ reqs[1].method = "GET"
    /\ Len(reqs) = 2 => (reqs[2].method = "PUT" /\ Accepted(get))

\* C25: one toggle, of either controller, issues exactly one GET, first, and
\* at most one PUT, after the GET was answered; whatever the answers, also
\* when the PUT failed, there is no third request.
C25_OneGetOnePut ==
    /\ call.op = "toggle" => OneGetOnePut(call.reqs, call.get)
    /\ tog.ran => OneGetOnePut(tog.reqs, tog.get)

C25_Witness ==
    /\ tog.ran
    /\ Len(tog.reqs) = 2
    /\ tog.put.transport = "timeout"
    /\ Has(tog.log, "show_error")

\* the read and the write of the toggle both completed: two requests, both
\* answers taken and parsed, and a power read from the first light
Completed(t) ==
    /\ Len(t.reqs) = 2
    /\ t.opened = 2 /\ t.closes = 2
    /\ t.queried \notin {"none", "nopower"}

\* C26: a run of toggle_light emits exactly one of the two outcome pulses,
\* the success pulse exactly when its read and its write completed; the
\* success LED is off after it, and after the success pulse of a toggle that
\* started with the link up, the last thing that toggle does, the error LED
\* is off as well.
C26_OneOutcomePulse ==
    tog.ran =>
        /\ Count(tog.log, "blink_success") + Count(tog.log, "show_error") = 1
        /\ Has(tog.log, "blink_success") <=> Completed(tog)
        /\ ~success_led
        /\ (Has(tog.log, "blink_success") /\ tog.link) => ~error_led

\* C27: a selector that resolves to several lights.  The toggle of the API
\* client whose query listed them, the first one 'on' or 'off', sends one
\* PUT, to the state of the selector, with the power the first light of the
\* list does not have.  The toggle of the button controller reads the power
\* of the first light of the service, whatever the others have, and what it
\* writes is one PUT to the state of the selector with the power the first
\* light does not have; every light the service reports 'ok' for has that
\* power afterwards.
C27_FirstLightDecides ==
    /\ []((/\ call.op = "toggle"
           /\ Len(call.value) >= 2
           /\ call.value[1] \in Power
           /\ Puts(call.reqs) # {}) =>
              /\ Len(call.reqs) = 2
              /\ call.reqs[2].method = "PUT"
              /\ call.reqs[2].endpoint = "lights/{selector}/state"
              /\ call.reqs[2].power \in Power \ {call.value[1]})
    /\ [][(/\ tog'.ran
           /\ Len(lights) >= 2
           /\ Accepted(tog'.get)
           /\ tog'.get.kind = "json") =>
              /\ tog'.queried = lights[1]
              /\ Len(tog'.reqs) = 2
              /\ tog'.reqs[2] = Request("PUT", "lights/{light_name}/state",
                                        tog'.written)
              /\ tog'.written \in Power \ {lights[1]}
              /\ Accepted(tog'.put) =>
                     \A i \in 1..Len(lights) :
                         tog'.put.results[i] = "ok" =>
                             lights'[i] = tog'.written]_vars

C27_Witness ==
    /\ tog.ran
    /\ Len(lights) >= 2
    /\ tog.queried = "on"
    /\ tog.written = "off"
    /\ tog.put.kind = "json"
    /\ tog.put.results[1] = "ok"
    /\ tog.put.results[2] = "offline"
    /\ lights[1] = "off"
    /\ lights[2] = "off"

\* C28: the toggle is stateless, in both clients.  The power a toggle sends
\* is 'off' when its own query gave 'on' for the first light and 'on'
\* otherwise, whatever came before; and the toggle that follows another
\* toggle, somebody else having given the first light a power between the
\* two, its query answered with the list of the lights, sends the power the
\* other party did not set.
C28_Stateless ==
    /\ []((call.op = "toggle" /\ Puts(call.reqs) # {}) =>
              call.reqs[2].power =
                  IF call.value[1] = "on" THEN "off" ELSE "on")
    /\ []((tog.ran /\ tog.written # "none") =>
              tog.written = IF tog.queried = "on" THEN "off" ELSE "on")
    /\ [][(/\ between.toggled \in Power
           /\ between.external \in Power
           /\ between'.external = "none"
           /\ between'.toggled \in Power
           /\ IF tog'.ran THEN tog'.get.kind = "json"
              ELSE call'.op = "toggle" /\ call'.get.kind = "json") =>
              between'.toggled \in Power \ {between.external}]_vars

C28_Witness ==
    /\ tog.ran
    /\ tog.get.kind = "json"
    /\ between.found = "on"
    /\ tog.queried = "on"
    /\ between.toggled = "off"

\* C29: the press that the debounce gate rejects changes nothing: the
\* handler did nothing (no pulse, no timer), and last_button_time,
\* system_ready, the three LEDs and the pending timers are after it what
\* they were before it.
C29_RejectedPressSilent ==
    [][(press'.ran /\ ~press'.accepted) =>
           /\ press'.log = <<>>
           /\ last_button_time' = last_button_time
           /\ system_ready' = system_ready
           /\ <<system_led', error_led', success_led'>> =
                  <<system_led, error_led, success_led>>
           /\ timers' = timers
           /\ ~press'.dispatched]_vars

C29_Witness ==
    /\ press.ran
    /\ ~press.accepted
    /\ press.since >= 0
    /\ press.since < DEBOUNCE_TIME
    /\ press.ready
    /\ press.leds[1]
    /\ timers = press.timers
    /\ timers > 0

\* C30: the handler of the button interrupt issues no request.  The press
\* accepted while system_ready is True starts one one-shot timer, one more
\* is pending after it; a toggle, with its requests, runs only in a later
\* step, as the callback of a pending timer, which it uses up, and never in
\* the step of the handler.
C30_DeferredToggle ==
    /\ [](press.ran => (press.reqs = <<>> /\ ~tog.ran))
    /\ []((press.ran /\ press.accepted /\ press.ready) =>
              /\ Count(press.log, "Timer") = 1
              /\ timers = press.timers + 1)
    /\ []((press.ran /\ ~(press.accepted /\ press.ready)) =>
              timers = press.timers)
    /\ [][tog'.ran =>
              /\ timers > 0
              /\ timers' = timers - 1
              /\ ~press'.ran
              /\ Len(tog'.reqs) >= 1]_vars

C30_Witness ==
    /\ press.ran
    /\ press.accepted
    /\ press.ready
    /\ press.reqs = <<>>
    /\ press.log = <<"accepted", "blink_system", "Timer">>
    /\ timers = press.timers + 1

\* C31: the endpoints.  Every query is a GET to lights/{selector} and every
\* update a PUT to lights/{selector}/state, in the requests of the API
\* client and in those of the toggle of the button controller; no GET goes
\* to the state endpoint.
C31_Endpoints ==
    /\ \A i \in 1..Len(call.reqs) :
           /\ call.reqs[i].method = "GET" =>
                  call.reqs[i].endpoint = "lights/{selector}"
           /\ call.reqs[i].method = "PUT" =>
                  call.reqs[i].endpoint = "lights/{selector}/state"
    /\ tog.ran =>
           \A i \in 1..Len(tog.reqs) :
               /\ tog.reqs[i].method = "GET" =>
                      tog.reqs[i].endpoint = "lights/{light_name}"
               /\ tog.reqs[i].method = "PUT" =>
                      tog.reqs[i].endpoint = "lights/{light_name}/state"

\* C32: whatever makes _make_request fail, the exception that leaves it is
\* LIFXAPIError: no answer to the request (the transport call raised), a
\* method that is neither GET nor PUT, a status that is not taken, a body
\* that cannot be parsed.
C32_RequestRaisesLIFXAPIError ==
    call.op = "request" => call.exc \in {"none", "LIFXAPIError"}

\* both controllers completed their toggle, each having read 'on' or 'off'
\* and had its write reported 'ok' for the first light
BothToggled ==
    /\ program = "pair"
    /\ \A c \in Controllers :
           inflight.ctl[c].pc = "done" /\ inflight.ctl[c].regular

\* C33: two controllers each complete one successful toggle of the same
\* light, nobody else writing: the light has the power it had before the
\* two, however the GETs and PUTs of the two interleave.
C33_TogglesCancel ==
    BothToggled => lights[1] = inflight.original[1]

\* C34: no toggle issues its requests while system_ready is False: in every
\* step in which toggle_light runs and sends a request, system_ready was
\* True when it started, also when the timer of the toggle was started
\* before the loop of run() found the link down.
C34_NoRequestWhileNotReady ==
    [][(tog'.ran /\ Len(tog'.reqs) > 0) => system_ready]_vars

\* C36: connect_wifi ends, whatever the reading of the clock it starts at.
\* It never takes longer than its pulse, WIFI_TIMEOUT and one pause of the
\* wait; with the link up already it returns after the pulse; with an
\* association that completes within WIFI_TIMEOUT it returns, less than one
\* pause after the link is up; and when it raises the timeout, more than
\* WIFI_TIMEOUT has passed since it asked for the association, which was not
\* going to complete in that time.
C36_ConnectTerminates ==
    conn.ran =>
        /\ conn.spent <= BLINK_DURATION + WIFI_TIMEOUT + POLL_MS
        /\ conn.link => (conn.exc = "none" /\ conn.spent = BLINK_DURATION)
        /\ (~conn.link /\ conn.assoc <= WIFI_TIMEOUT) =>
               /\ conn.exc = "none"
               /\ conn.spent >= BLINK_DURATION + conn.assoc
               /\ conn.spent < BLINK_DURATION + conn.assoc + POLL_MS
        /\ conn.exc # "none" =>
               /\ ~conn.link
               /\ conn.assoc > WIFI_TIMEOUT
               /\ conn.spent > BLINK_DURATION + WIFI_TIMEOUT

C36_Witness ==
    /\ conn.ran
    /\ conn.exc # "none"
    /\ clock = TICKS_PERIOD - WIFI_TIMEOUT \div 2
    /\ conn.spent = BLINK_DURATION + WIFI_TIMEOUT + POLL_MS

\* C37: after cleanup() no toggle is dispatched any more: the press that
\* arrives when run() has ended (by KeyboardInterrupt, or by the failure of
\* the first connect_wifi) is ignored, it starts no timer and issues no
\* request.
C37_NoDispatchAfterCleanup ==
    (pc \in {"done", "failed"} /\ press.ran) =>
        /\ ~press.dispatched
        /\ timers = press.timers
        /\ press.reqs = <<>>

\* C38: LIFXController.set_light_state returns only when the answer to its
\* PUT carries a results list with at least one 'ok' entry; with an empty
\* list and with no results list at all it raises.
C38_ReturnNeedsOkResult ==
    (call.op = "set" /\ call.exc = "none") =>
        /\ call.put.kind = "json"
        /\ \E i \in 1..Len(call.put.results) : call.put.results[i] = "ok"

\* C39: validate_connection never returns False: whatever the service
\* answers it returns True or raises LIFXAPIError; the discovery that finds
\* no light raises.
C39_ValidateNeverFalse ==
    call.op = "validate" =>
        /\ \/ call.exc = "none" /\ call.value = <<"True">>
           \/ call.exc = "LIFXAPIError" /\ call.value = <<>>
        /\ (Accepted(call.get) /\ call.get.kind = "json" /\ lights = <<>>) =>
               call.exc = "LIFXAPIError"

C39_Witness ==
    /\ call.op = "validate"
    /\ Accepted(call.get)
    /\ call.get.kind = "json"
    /\ lights = <<>>
    /\ call.exc = "LIFXAPIError"
    /\ call.closes = 1

====
